---- MODULE Spec2Model ----
(***************************************************************************)
(* OpenTex (src/app.py): the project sandbox and the external-process      *)
(* orchestration of the editor back end.  Names and paths are sequences of *)
(* one-character strings, so that trimming, filtering, joining and         *)
(* splitting are computed and not assumed.                                 *)
(***************************************************************************)
EXTENDS Naturals, Integers, Sequences, FiniteSets, TLC

VARIABLES
    raw,        \* sanitize_name: the argument of the call
    safe,       \* sanitize_name: the value returned (Unset before the call)
    dirs,       \* the directories that exist, each by its path
    files,      \* the regular files that exist, each by its path
    dirMaker,   \* history: the request whose makedirs created each directory
    fileWriter, \* history: the request whose open(..., 'w') last wrote each file
    pc,         \* per request worker: the handler's position
    loc,        \* per request worker: the handler's local variables
    io,         \* the paths the last handler step handed to the OS
    resp,       \* the last response returned by a handler
    gitpc,      \* run_git_commands: position
    gitCfg,     \* run_git_commands: the git_cfg argument
    gitDir,     \* whether <project>/.git exists
    gitHad,     \* history: whether .git existed when run_git_commands was called
    ran,        \* run_git_commands: every value returned by run(), in order
    result      \* run_git_commands: the result dict {'ok', 'steps'}

fsVars == <<dirs, files, dirMaker, fileWriter>>
vars == <<raw, safe, dirs, files, dirMaker, fileWriter, pc, loc, io, resp,
             gitpc, gitCfg, gitDir, gitHad, ran, result>>

(***************************************************************************)
(* Bounds.                                                                 *)
(***************************************************************************)
MaxLen == 3         \* raw strings given to sanitize_name: all up to this length
MaxEntries == 2     \* members of an uploaded archive

(***************************************************************************)
(* Characters and strings.                                                 *)
(***************************************************************************)
Lower == {"a","b","c","d","e","f","g","h","i","j","k","l","m",
          "n","o","p","q","r","s","t","u","v","w","x","y","z"}
Upper == {"A","B","C","D","E","F","G","H","I","J","K","L","M",
          "N","O","P","Q","R","S","T","U","V","W","X","Y","Z"}
Digit == {"0","1","2","3","4","5","6","7","8","9"}
\* the class [a-zA-Z0-9_.-] of sanitize_name's second re.sub
AllowedChars == Lower \cup Upper \cup Digit \cup {"_", ".", "-"}
\* what str.strip() and \s match, among the characters used here
Whitespace == {" ", "\t"}

\* Python's None, and the value of a variable not assigned yet
None == <<"<None>">>
Unset == <<"<unset>">>

\* Python truthiness of a str-or-None value: `not x`
Falsy(x) == x = None \/ x = <<>>

StartsWith(s, p) == Len(s) >= Len(p) /\ SubSeq(s, 1, Len(p)) = p
EndsWith(s, p) == Len(s) >= Len(p) /\ SubSeq(s, Len(s) - Len(p) + 1, Len(s)) = p
Contains(s, p) == \E i \in 1..(Len(s) - Len(p) + 1) : SubSeq(s, i, i + Len(p) - 1) = p

\* str.strip(): leading and trailing whitespace removed
RECURSIVE LStrip(_)
LStrip(s) == IF s # <<>> /\ Head(s) \in Whitespace THEN LStrip(Tail(s)) ELSE s
RECURSIVE RStrip(_)
RStrip(s) ==
    IF s # <<>> /\ s[Len(s)] \in Whitespace THEN RStrip(SubSeq(s, 1, Len(s) - 1)) ELSE s
Strip(s) == RStrip(LStrip(s))

\* re.sub(r'\s+', '_', s): every maximal run of whitespace becomes one "_"
RECURSIVE CollapseWs(_)
CollapseWs(s) ==
    IF s = <<>> THEN <<>>
    ELSE IF Head(s) \in Whitespace THEN <<"_">> \o CollapseWs(LStrip(s))
    ELSE <<Head(s)>> \o CollapseWs(Tail(s))

\* re.sub(r'[^a-zA-Z0-9_.-]', '', s)
IsAllowed(c) == c \in AllowedChars
StripDisallowed(s) == SelectSeq(s, IsAllowed)

\* the test of line 59
sanitize_rejects_NoDotDot(s) == StartsWith(s, <<"/">>) \/ StartsWith(s, <<".">>)
sanitize_rejects(s) ==
    Contains(s, <<".", ".">>) \/ StartsWith(s, <<"/">>) \/ StartsWith(s, <<".">>)

sanitize_name(name) ==
    IF Falsy(name) THEN None
    ELSE LET s == StripDisallowed(CollapseWs(Strip(name)))
         IN  IF sanitize_rejects(s) THEN None ELSE s

(***************************************************************************)
(* Bounded sets of strings.                                                *)
(***************************************************************************)
RECURSIVE StringsUpTo(_, _)
StringsUpTo(A, n) ==
    IF n = 0 THEN {<<>>}
    ELSE LET S == StringsUpTo(A, n - 1)
         IN  S \cup {Append(s, c) : s \in {t \in S : Len(t) = n - 1}, c \in A}

\* one or two characters of every class sanitize_name tells apart
Alphabet == {"a", "Z", "0", "_", ".", "-", "/", " ", "!"}
RawStrings == StringsUpTo(Alphabet, MaxLen)

(***************************************************************************)
(* os.path for POSIX paths, as posixpath computes them.                    *)
(***************************************************************************)
Max(S) == CHOOSE x \in S : \A y \in S : y <= x
\* str.rfind(c), 1-based; 0 when c does not occur
RFind(s, c) == Max({0} \cup {i \in 1..Len(s) : s[i] = c})

\* os.path.join(a, b)
os_path_join(a, b) ==
    IF StartsWith(b, <<"/">>) THEN b
    ELSE IF a = <<>> \/ EndsWith(a, <<"/">>) THEN a \o b
    ELSE a \o <<"/">> \o b

\* os.path.basename(p)
basename(p) == SubSeq(p, RFind(p, "/") + 1, Len(p))

RECURSIVE RStripSep(_)
RStripSep(s) ==
    IF s # <<>> /\ s[Len(s)] = "/" THEN RStripSep(SubSeq(s, 1, Len(s) - 1)) ELSE s

\* os.path.dirname(p)
dirname(p) ==
    LET head == SubSeq(p, 1, RFind(p, "/"))
    IN  IF head # <<>> /\ (\E i \in 1..Len(head) : head[i] # "/")
        THEN RStripSep(head) ELSE head

\* os.path.splitext(p)[0]: the last dot of the base name starts the
\* extension, unless only dots precede it
splitext_root(p) ==
    LET sepIndex == RFind(p, "/")
        dotIndex == RFind(p, ".")
    IN  IF dotIndex > sepIndex
           /\ \E k \in (sepIndex + 1)..(dotIndex - 1) : p[k] # "."
        THEN SubSeq(p, 1, dotIndex - 1)
        ELSE p

\* the components posixpath.commonpath compares: split on "/", empty and "."
\* components dropped
RECURSIVE Components(_)
Components(p) ==
    IF p = <<>> THEN <<>>
    ELSE LET i == IF \E k \in 1..Len(p) : p[k] = "/"
                  THEN CHOOSE k \in 1..Len(p) :
                           p[k] = "/" /\ \A j \in 1..(k - 1) : p[j] # "/"
                  ELSE Len(p) + 1
             first == SubSeq(p, 1, i - 1)
             rest == Components(SubSeq(p, i + 1, Len(p)))
         IN  IF first = <<>> \/ first = <<".">> THEN rest ELSE <<first>> \o rest

RECURSIVE JoinComponents(_)
JoinComponents(cs) ==
    IF cs = <<>> THEN <<>> ELSE <<"/">> \o Head(cs) \o JoinComponents(Tail(cs))

\* os.path.commonpath([a, b]) of two absolute paths
commonpath(a, b) ==
    LET ca == Components(a)
        cb == Components(b)
        n == Max({0} \cup {k \in 1..Len(ca) :
                      k <= Len(cb) /\ SubSeq(ca, 1, k) = SubSeq(cb, 1, k)})
    IN  IF n = 0 THEN <<"/">> ELSE JoinComponents(SubSeq(ca, 1, n))

(***************************************************************************)
(* Path helpers of the application.                                        *)
(***************************************************************************)
\* PROJECTS_DIR = os.path.join(app.root_path, 'projects'), with the
\* application installed at /app
PROJECTS_DIR == <<"/","a","p","p","/","p","r","o","j","e","c","t","s">>

get_project_path(project_name) ==
    LET s == sanitize_name(project_name)
    IN  IF Falsy(s) THEN None ELSE os_path_join(PROJECTS_DIR, s)

get_file_path(project_name, file_name) ==
    LET project_path == get_project_path(project_name)
        safe_file == sanitize_name(file_name)
    IN  IF Falsy(project_path) \/ Falsy(safe_file) THEN None
        ELSE os_path_join(project_path, safe_file)

get_pdf_path(project_name, file_name) ==
    LET fp == get_file_path(project_name, file_name)
    IN  IF Falsy(fp) THEN None
        ELSE os_path_join(dirname(fp),
                          splitext_root(basename(fp)) \o <<".","p","d","f">>)

(***************************************************************************)
(* The file system under PROJECTS_DIR: the directories and the regular     *)
(* files that exist, each by its path.                                     *)
(***************************************************************************)
exists(p) == p \in dirs \/ p \in files
isdir(p) == p \in dirs
isfile(p) == p \in files
\* open(p, 'w') can create or truncate p: its directory exists and p is no
\* directory
CanOpenForWrite(p) == dirname(p) \in dirs /\ p \notin dirs
Under(d, S) == {f \in S : StartsWith(f, d \o <<"/">>)}
\* shutil.rmtree(d): the directory and everything in it
DirsAfterRmtree(d) == (dirs \ {d}) \ Under(d, dirs)
FilesAfterRmtree(d) == files \ Under(d, files)

\* the effect of a successful os.makedirs(d, exist_ok=True) by request w
MakeDir(d, w) ==
    /\ dirs' = dirs \cup {d}
    /\ dirMaker' = [x \in dirs \cup {d} |-> IF x \in dirs THEN dirMaker[x] ELSE w]
    /\ UNCHANGED <<files, fileWriter>>
\* the effect of a successful open(f, 'w') and write by request w
WriteFile(f, w) ==
    /\ files' = files \cup {f}
    /\ fileWriter' = [x \in files \cup {f} |-> IF x = f THEN w ELSE fileWriter[x]]
    /\ UNCHANGED <<dirs, dirMaker>>
\* the effect of a successful shutil.rmtree(d)
RemoveTree(d) ==
    /\ dirs' = DirsAfterRmtree(d)
    /\ files' = FilesAfterRmtree(d)
    /\ dirMaker' = [x \in DirsAfterRmtree(d) |-> dirMaker[x]]
    /\ fileWriter' = [x \in FilesAfterRmtree(d) |-> fileWriter[x]]
\* the effect of os.remove(f)
RemoveFile(f) ==
    /\ files' = files \ {f}
    /\ fileWriter' = [x \in files \ {f} |-> fileWriter[x]]
    /\ UNCHANGED <<dirs, dirMaker>>

(***************************************************************************)
(* Requests.  Each worker serves one request at a time; a handler that     *)
(* looks before it acts is split where another request can run in between. *)
(***************************************************************************)
Workers == {1, 2}

NoZip == [valid |-> FALSE, members |-> <<>>]
NoLoc == [ppath |-> None, zip |-> NoZip, i |-> 0]
NoResp == [op |-> "none", code |-> 0]

\* a path handed to an os / open / shutil call, or to subprocess.run as cwd
ProjectIO(p) == [kind |-> "project", path |-> p]
FileIO(p) == [kind |-> "file", path |-> p]

otherThanStore == <<raw, safe, gitpc, gitCfg, gitDir, gitHad, ran, result>>

\* return a response: the handler ends
Return(w, r, paths) ==
    /\ pc' = [pc EXCEPT ![w] = "idle"]
    /\ loc' = [loc EXCEPT ![w] = NoLoc]
    /\ resp' = [resp EXCEPT ![w] = r]
    /\ io' = paths

\* go on to the handler's next statement
Goto(w, label, l, paths) ==
    /\ pc' = [pc EXCEPT ![w] = label]
    /\ loc' = [loc EXCEPT ![w] = l]
    /\ resp' = [resp EXCEPT ![w] = NoResp]
    /\ io' = paths

document_tex == <<"d","o","c","u","m","e","n","t",".","t","e","x">>

(* POST /api/projects, to the existence test of line 107 *)
CreateRequest(w, name) ==
    /\ pc[w] = "idle"
    /\ UNCHANGED <<fsVars, otherThanStore>>
    /\ LET project == sanitize_name(name)
           path == get_project_path(project)
       IN  IF Falsy(name) \/ Falsy(project)
           THEN Return(w, [op |-> "create", code |-> 400], {})
           ELSE IF exists(path)
           THEN Return(w, [op |-> "create", code |-> 400], {ProjectIO(path)})
           ELSE Goto(w, "cr_mkdir", [NoLoc EXCEPT !.ppath = path], {ProjectIO(path)})

(* line 110: os.makedirs(path, exist_ok=True) *)
CreateMkdir(w) ==
    /\ pc[w] = "cr_mkdir"
    /\ UNCHANGED otherThanStore
    /\ \/ /\ MakeDir(loc[w].ppath, w)
          /\ Goto(w, "cr_write", loc[w], {ProjectIO(loc[w].ppath)})
       \/ /\ UNCHANGED fsVars
          /\ Return(w, [op |-> "create", code |-> 500], {ProjectIO(loc[w].ppath)})

(* lines 121-125: the default document is written *)
CreateWrite(w) ==
    /\ pc[w] = "cr_write"
    /\ UNCHANGED otherThanStore
    /\ LET f == os_path_join(loc[w].ppath, document_tex)
       IN  \/ /\ CanOpenForWrite(f)
              /\ WriteFile(f, w)
              /\ Return(w, [op |-> "create", code |-> 201], {FileIO(f)})
           \/ /\ UNCHANGED fsVars
              /\ Return(w, [op |-> "create", code |-> 500], {FileIO(f)})

zip_ext == <<".","z","i","p">>

(* POST /api/upload_zip, to the existence test of line 141.  filename is   *)
(* None when the request has no 'project_zip' part; zip is the uploaded    *)
(* content: whether zipfile can open it, and its members' names in order.  *)
UploadRequest(w, filename, zip) ==
    /\ pc[w] = "idle"
    /\ UNCHANGED <<fsVars, otherThanStore>>
    /\ LET project == sanitize_name(splitext_root(filename))
           ppath == get_project_path(project)
       IN  IF Falsy(filename) \/ ~EndsWith(filename, zip_ext) \/ Falsy(project)
           THEN Return(w, [op |-> "upload", code |-> 400], {})
           ELSE IF exists(ppath)
           THEN Return(w, [op |-> "upload", code |-> 400], {ProjectIO(ppath)})
           ELSE Goto(w, "up_mkdir", [ppath |-> ppath, zip |-> zip, i |-> 1],
                     {ProjectIO(ppath)})

\* the response, with what the handler had at hand when it returned: the
\* project path, the archive, the member it had reached, and how the except
\* block's rmtree went ("none": not called)
UploadResponse(w, code, cleanup) ==
    [op |-> "upload", code |-> code, ppath |-> loc[w].ppath, zip |-> loc[w].zip,
     i |-> loc[w].i, cleanup |-> cleanup]

(* line 143: os.makedirs(ppath, exist_ok=True), outside the try block: a    *)
(* failure leaves the handler as an unhandled exception (a 500 response)   *)
UploadMkdir(w) ==
    /\ pc[w] = "up_mkdir"
    /\ UNCHANGED otherThanStore
    /\ \/ /\ MakeDir(loc[w].ppath, w)
          /\ Goto(w, "up_open", loc[w], {ProjectIO(loc[w].ppath)})
       \/ /\ UNCHANGED fsVars
          /\ Return(w, UploadResponse(w, 500, "none"), {ProjectIO(loc[w].ppath)})

(* lines 145-146: the upload is read and opened as a zip archive *)
UploadOpen(w) ==
    /\ pc[w] = "up_open"
    /\ UNCHANGED <<fsVars, otherThanStore>>
    /\ Goto(w, IF loc[w].zip.valid THEN "up_member" ELSE "up_fail", loc[w], {})

\* member.is_dir()
is_dir(member) == EndsWith(member, <<"/">>)

\* lines 150-151: the name a member is stored under
member_name_NoBasename(member) == sanitize_name(member)
member_name(member) == sanitize_name(basename(member))

(* lines 147-158: one member of the archive *)
UploadMember(w) ==
    /\ pc[w] = "up_member"
    /\ loc[w].i <= Len(loc[w].zip.members)
    /\ UNCHANGED otherThanStore
    /\ LET ppath == loc[w].ppath
           member == loc[w].zip.members[loc[w].i]
           safe_name == member_name(member)
           tgt == os_path_join(ppath, safe_name)
           next == [loc[w] EXCEPT !.i = @ + 1]
       IN  IF is_dir(member) \/ Falsy(safe_name)
           THEN UNCHANGED fsVars /\ Goto(w, "up_member", next, {})
           ELSE IF commonpath(ppath, tgt) # ppath
           THEN UNCHANGED fsVars /\ Goto(w, "up_member", next, {})
           ELSE \/ /\ CanOpenForWrite(tgt)
                   /\ WriteFile(tgt, w)
                   /\ Goto(w, "up_member", next, {FileIO(tgt)})
                \* the file is opened and z.read or out.write raises
                \/ /\ CanOpenForWrite(tgt)
                   /\ WriteFile(tgt, w)
                   /\ Goto(w, "up_fail", loc[w], {FileIO(tgt)})
                \* open raises
                \/ /\ UNCHANGED fsVars
                   /\ Goto(w, "up_fail", loc[w], {FileIO(tgt)})

(* line 159: every member was seen *)
UploadDone(w) ==
    /\ pc[w] = "up_member"
    /\ loc[w].i > Len(loc[w].zip.members)
    /\ UNCHANGED <<fsVars, otherThanStore>>
    /\ Return(w, UploadResponse(w, 201, "none"), {})

\* line 161: whether the handler removes the project directory
rollback_needed_Never(ppath) == FALSE
rollback_needed(ppath) == exists(ppath)

(* lines 160-163: the except block *)
UploadFail(w) ==
    /\ pc[w] = "up_fail"
    /\ UNCHANGED otherThanStore
    /\ IF rollback_needed(loc[w].ppath)
       THEN \/ /\ RemoveTree(loc[w].ppath)
               /\ Return(w, UploadResponse(w, 500, "done"), {ProjectIO(loc[w].ppath)})
            \* rmtree itself raises: the exception leaves the handler (a 500
            \* response) and the directory stays
            \/ /\ UNCHANGED fsVars
               /\ Return(w, UploadResponse(w, 500, "failed"), {ProjectIO(loc[w].ppath)})
       ELSE /\ UNCHANGED fsVars
            /\ Return(w, UploadResponse(w, 500, "none"), {ProjectIO(loc[w].ppath)})

(* DELETE or POST /api/projects/<project_name>, and                        *)
(* POST /api/projects/<project_name>/delete                                *)
DeleteProject(w, project_name) ==
    /\ pc[w] = "idle"
    /\ UNCHANGED otherThanStore
    /\ \E ppath \in {get_project_path(project_name)} :
           IF Falsy(ppath)
           THEN UNCHANGED fsVars /\ Return(w, [op |-> "delete", code |-> 404], {})
           ELSE IF ~isdir(ppath)
           THEN /\ UNCHANGED fsVars
                /\ Return(w, [op |-> "delete", code |-> 404], {ProjectIO(ppath)})
           ELSE \/ /\ RemoveTree(ppath)
                   /\ Return(w, [op |-> "delete", code |-> 200], {ProjectIO(ppath)})
                \/ /\ UNCHANGED fsVars
                   /\ Return(w, [op |-> "delete", code |-> 500], {ProjectIO(ppath)})

(* GET /api/projects/<project_name> and GET .../files: the listing *)
ProjectGet(w, project_name) ==
    /\ pc[w] = "idle"
    /\ UNCHANGED <<fsVars, otherThanStore>>
    /\ \E ppath \in {get_project_path(project_name)} :
           IF Falsy(ppath)
           THEN Return(w, [op |-> "list", code |-> 404], {})
           ELSE Return(w, [op |-> "list", code |-> IF isdir(ppath) THEN 200 ELSE 404],
                       {ProjectIO(ppath)})

(* POST /api/projects/<project_name>/files *)
FileCreate(w, project_name, name) ==
    /\ pc[w] = "idle"
    /\ UNCHANGED otherThanStore
    /\ \E ppath \in {get_project_path(project_name)},
          fname \in {sanitize_name(name)},
          fpath \in {os_path_join(get_project_path(project_name), sanitize_name(name))} :
           IF Falsy(ppath)
           THEN UNCHANGED fsVars /\ Return(w, [op |-> "newfile", code |-> 404], {})
           ELSE IF ~isdir(ppath)
           THEN /\ UNCHANGED fsVars
                /\ Return(w, [op |-> "newfile", code |-> 404], {ProjectIO(ppath)})
           ELSE IF Falsy(name) \/ Falsy(fname)
           THEN /\ UNCHANGED fsVars
                /\ Return(w, [op |-> "newfile", code |-> 400], {ProjectIO(ppath)})
           ELSE IF exists(fpath)
           THEN /\ UNCHANGED fsVars
                /\ Return(w, [op |-> "newfile", code |-> 400],
                          {ProjectIO(ppath), FileIO(fpath)})
           ELSE \/ /\ WriteFile(fpath, w)
                   /\ Return(w, [op |-> "newfile", code |-> 201],
                             {ProjectIO(ppath), FileIO(fpath)})
                \/ /\ UNCHANGED fsVars
                   /\ Return(w, [op |-> "newfile", code |-> 500],
                             {ProjectIO(ppath), FileIO(fpath)})

(* DELETE /api/projects/<project_name>/files?file=<name> *)
FileDelete(w, project_name, name) ==
    /\ pc[w] = "idle"
    /\ UNCHANGED otherThanStore
    /\ \E ppath \in {get_project_path(project_name)},
          fname \in {sanitize_name(name)},
          fpath \in {os_path_join(get_project_path(project_name), sanitize_name(name))} :
           IF Falsy(ppath)
           THEN UNCHANGED fsVars /\ Return(w, [op |-> "rmfile", code |-> 404], {})
           ELSE IF ~isdir(ppath)
           THEN /\ UNCHANGED fsVars
                /\ Return(w, [op |-> "rmfile", code |-> 404], {ProjectIO(ppath)})
           ELSE IF Falsy(name) \/ Falsy(fname)
           THEN /\ UNCHANGED fsVars
                /\ Return(w, [op |-> "rmfile", code |-> 400], {ProjectIO(ppath)})
           ELSE IF ~exists(fpath)
           THEN /\ UNCHANGED fsVars
                /\ Return(w, [op |-> "rmfile", code |-> 404],
                          {ProjectIO(ppath), FileIO(fpath)})
           ELSE \/ /\ RemoveFile(fpath)
                   /\ Return(w, [op |-> "rmfile", code |-> 200],
                             {ProjectIO(ppath), FileIO(fpath)})
                \/ /\ UNCHANGED fsVars
                   /\ Return(w, [op |-> "rmfile", code |-> 500],
                             {ProjectIO(ppath), FileIO(fpath)})

(* GET /api/projects/<project_name>/<file_name> *)
FileGet(w, project_name, file_name) ==
    /\ pc[w] = "idle"
    /\ UNCHANGED <<fsVars, otherThanStore>>
    /\ \E fpath \in {get_file_path(project_name, file_name)} :
           IF Falsy(fpath)
           THEN Return(w, [op |-> "read", code |-> 404], {})
           ELSE Return(w, [op |-> "read", code |-> IF isfile(fpath) THEN 200 ELSE 404],
                       {FileIO(fpath)})

(* POST /api/projects/<project_name>/<file_name>: the body is written *)
FileSave(w, project_name, file_name) ==
    /\ pc[w] = "idle"
    /\ UNCHANGED otherThanStore
    /\ \E fpath \in {get_file_path(project_name, file_name)} :
           IF Falsy(fpath)
           THEN UNCHANGED fsVars /\ Return(w, [op |-> "save", code |-> 400], {})
           ELSE \/ /\ CanOpenForWrite(fpath)
                   /\ WriteFile(fpath, w)
                   /\ Return(w, [op |-> "save", code |-> 200], {FileIO(fpath)})
                \/ /\ UNCHANGED fsVars
                   /\ Return(w, [op |-> "save", code |-> 500], {FileIO(fpath)})

(* GET /api/download_pdf?project=..&file=.. *)
DownloadPdf(w, project, file) ==
    /\ pc[w] = "idle"
    /\ UNCHANGED <<fsVars, otherThanStore>>
    /\ \E pdf \in {get_pdf_path(project, file)} :
           IF Falsy(pdf)
           THEN Return(w, [op |-> "download", code |-> 404], {})
           ELSE Return(w, [op |-> "download", code |-> IF exists(pdf) THEN 200 ELSE 404],
                       {FileIO(pdf)})

(***************************************************************************)
(* POST /api/compile.  The typesetter is an opaque process: a pass ends    *)
(* by exiting (status 0 or not), by the 30 s timeout or by not starting,   *)
(* and leaves the artifact on disk or not.                                 *)
(***************************************************************************)
PassOutcomes == [how : {"exit0", "exit1", "timeout", "oserror"}, pdf : BOOLEAN]

\* subprocess.run(command, ..., timeout=30) without check=True: it raises
\* TimeoutExpired or OSError and returns for every exit status
run_raises_Checked(o) == o.how # "exit0"
run_raises(o) == o.how \in {"timeout", "oserror"}

\* lines 284-287: the passes attempted, given what each would do
PassesAttempted(o1, o2) ==
    IF run_raises(o1) \/ ~o1.pdf THEN <<o1>> ELSE <<o1, o2>>

\* lines 288-292: the status of the response
compile_status(passes) ==
    IF \E k \in 1..Len(passes) : run_raises(passes[k]) THEN 500
    ELSE IF ~passes[Len(passes)].pdf THEN 400
    ELSE 200

\* the command line of line 282 and its working directory
ToolIO(ppath, target, fpath, pdf) ==
    [kind |-> "tool", cwd |-> ppath, arg |-> target, source |-> fpath, pdf |-> pdf]

CompileResponse(code, passes, pdf) ==
    [op |-> "compile", code |-> code, passes |-> passes, pdf |-> pdf]

compile_latex(w, project, main) ==
    /\ pc[w] = "idle"
    /\ UNCHANGED otherThanStore
    /\ \E ppath \in {get_project_path(project)},
          fpath \in {get_file_path(project, main)},
          pdf \in {get_pdf_path(project, main)} :
           IF Falsy(project) \/ Falsy(main)
           THEN UNCHANGED fsVars /\ Return(w, CompileResponse(400, <<>>, None), {})
           ELSE IF Falsy(ppath) \/ Falsy(fpath)
           THEN UNCHANGED fsVars /\ Return(w, CompileResponse(404, <<>>, None), {})
           ELSE IF ~isfile(fpath)
           THEN /\ UNCHANGED fsVars
                /\ Return(w, CompileResponse(404, <<>>, None), {FileIO(fpath)})
           ELSE \E o1, o2 \in PassOutcomes :
                  LET passes == PassesAttempted(o1, o2)
                      last == passes[Len(passes)]
                  IN  \* a pass that does not start leaves the disk as it was
                      /\ o1.how = "oserror" => o1.pdf = exists(pdf)
                      /\ o2.how = "oserror" => o2.pdf = o1.pdf
                      /\ IF last.pdf
                         THEN IF pdf \in files THEN UNCHANGED fsVars
                              ELSE WriteFile(pdf, w)
                         ELSE IF pdf \in files THEN RemoveFile(pdf)
                              ELSE UNCHANGED fsVars
                      /\ Return(w, CompileResponse(compile_status(passes), passes, pdf),
                                {FileIO(fpath), FileIO(pdf),
                                 ToolIO(ppath, main, fpath, pdf)})

(***************************************************************************)
(* Initial values: no project exists, no request is being served, no       *)
(* publish is running.                                                     *)
(***************************************************************************)
EmptyMap == [x \in {} |-> 0]

SanIdle == raw = None /\ safe = Unset

StoreIdle ==
    /\ dirs = {PROJECTS_DIR}
    /\ files = {}
    /\ dirMaker = [x \in {PROJECTS_DIR} |-> 0]
    /\ fileWriter = EmptyMap
    /\ pc = [w \in Workers |-> "idle"]
    /\ loc = [w \in Workers |-> NoLoc]
    /\ resp = [w \in Workers |-> NoResp]
    /\ io = {}

\* git_cfg: whether load_git_config returned a dict, and which of its values
\* are set
NoCfg == [loaded |-> FALSE, private_key_path |-> FALSE, host |-> FALSE,
          username |-> FALSE]

GitIdle ==
    /\ gitpc = "idle"
    /\ gitCfg = NoCfg
    /\ gitDir = FALSE
    /\ gitHad = FALSE
    /\ ran = <<>>
    /\ result = [ok |-> FALSE, steps |-> <<>>]

(***************************************************************************)
(* sanitize_name as a step: called on any raw string.                      *)
(***************************************************************************)
otherThanSan == <<dirs, files, dirMaker, fileWriter, pc, loc, io, resp,
                  gitpc, gitCfg, gitDir, gitHad, ran, result>>

SanitizeCall ==
    /\ safe = Unset
    /\ safe' = sanitize_name(raw)
    /\ UNCHANGED <<raw, otherThanSan>>

\* a name that was accepted is given to sanitize_name again: projects_root
\* passes the sanitized name of line 103 to get_project_path (lines 106, 64)
SanitizeAgain ==
    /\ safe # Unset
    /\ ~Falsy(safe)
    /\ raw' = safe
    /\ safe' = Unset
    /\ UNCHANGED otherThanSan

InitSanitize == raw \in RawStrings \cup {None} /\ safe = Unset /\ StoreIdle /\ GitIdle
NextSanitize == SanitizeCall \/ SanitizeAgain
SpecSanitize == InitSanitize /\ [][NextSanitize]_vars

(***************************************************************************)
(* The project store served by one worker: requests one after another.     *)
(***************************************************************************)
\* raw project names of requests: absent, plain, padded, climbing
ProjectArgs == {None, <<"p">>, <<" ","p">>, <<".",".","/","p">>}
\* raw file names of requests: absent, plain, with a space, absolute,
\* climbing, and one that sanitizes to the empty string
FileArgs == {None,
             <<"a",".","t","e","x">>,
             <<"a"," ","b",".","t","e","x">>,
             <<"/","a",".","t","e","x">>,
             <<".",".","/","a",".","t","e","x">>,
             <<"!">>}

InitStore == SanIdle /\ StoreIdle /\ GitIdle
NextStore ==
    \/ \E project \in ProjectArgs : CreateRequest(1, project)
    \/ CreateMkdir(1)
    \/ CreateWrite(1)
    \/ \E project \in ProjectArgs : DeleteProject(1, project)
    \/ \E project \in ProjectArgs : ProjectGet(1, project)
    \/ \E project \in ProjectArgs, file \in FileArgs : FileCreate(1, project, file)
    \/ \E project \in ProjectArgs, file \in FileArgs : FileDelete(1, project, file)
    \/ \E project \in ProjectArgs, file \in FileArgs : FileGet(1, project, file)
    \/ \E project \in ProjectArgs, file \in FileArgs : FileSave(1, project, file)
    \/ \E project \in ProjectArgs, file \in FileArgs : compile_latex(1, project, file)
    \/ \E project \in ProjectArgs, file \in FileArgs : DownloadPdf(1, project, file)
SpecStore == InitStore /\ [][NextStore]_vars

(***************************************************************************)
(* Confinement.                                                            *)
(***************************************************************************)
dotdot == <<".", ".">>

\* p is d/<segment>: absolute, one component more than d, none of them ".."
DirectChild(p, d) ==
    LET c == Components(p)
        cd == Components(d)
    IN  /\ StartsWith(p, <<"/">>)
        /\ Len(c) = Len(cd) + 1
        /\ SubSeq(c, 1, Len(cd)) = cd
        /\ \A k \in 1..Len(c) : c[k] # dotdot

\* the file a process started in cwd opens for the argument arg
Resolved(cwd, arg) == Components(os_path_join(cwd, arg))

ProjectConfined(r) == DirectChild(r.path, PROJECTS_DIR)
FileConfined(r) ==
    /\ DirectChild(dirname(r.path), PROJECTS_DIR)
    /\ DirectChild(r.path, dirname(r.path))
ToolConfined(r) ==
    /\ DirectChild(r.cwd, PROJECTS_DIR)
    /\ DirectChild(r.source, r.cwd)
    /\ DirectChild(r.pdf, r.cwd)
    /\ Resolved(r.cwd, r.arg) = Components(r.source)

\* Every project-level and file-level path handed to the OS is confined
\* (the part of C1 that does not concern the typesetter's argument).
PathsConfined ==
    \A r \in io :
        /\ r.kind = "project" => ProjectConfined(r)
        /\ r.kind = "file" => FileConfined(r)

\* C1: every path an operation hands to a filesystem call or to an external
\* process is confined: a project path is a direct child of PROJECTS_DIR, a
\* file or artifact path is a direct child of its project directory, and the
\* source-file argument given to the typesetter names, from its working
\* directory, the validated file whose existence compile checked.
C1_Confinement ==
    \A r \in io :
        /\ r.kind = "project" => ProjectConfined(r)
        /\ r.kind = "file" => FileConfined(r)
        /\ r.kind = "tool" => ToolConfined(r)

Returned(r) == \A k \in 1..Len(r.passes) : r.passes[k].how \in {"exit0", "exit1"}

\* C4: when every typesetter pass of a compile returned an exit status,
\* compile answers with the artifact (200) if and only if the derived .pdf
\* path exists on disk after the last attempted pass, whatever the statuses.
C4_ArtifactDecides ==
    \A w \in Workers :
        (resp[w].op = "compile" /\ resp[w].passes # <<>> /\ Returned(resp[w]))
            => (resp[w].code = 200 <=> resp[w].pdf \in files)

\* a compile whose two passes both exited non-zero and left the PDF: success
C4_Witness ==
    \E w \in Workers :
        /\ resp[w].op = "compile"
        /\ resp[w].code = 200
        /\ Len(resp[w].passes) = 2
        /\ \A k \in 1..2 : resp[w].passes[k].how = "exit1"
        /\ resp[w].pdf \in files

\* C5: whenever the first pass returned and left the artifact, the second
\* pass is run and compile answers with the artifact, however the second
\* pass ends (the artifact still being on disk).
C5_SecondPassIgnored ==
    \A w \in Workers :
        (/\ resp[w].op = "compile"
         /\ resp[w].passes # <<>>
         /\ resp[w].passes[1].how \in {"exit0", "exit1"}
         /\ resp[w].passes[1].pdf
         /\ resp[w].pdf \in files)
            => (Len(resp[w].passes) = 2 /\ resp[w].code = 200)

(***************************************************************************)
(* Archive import served by one worker.                                    *)
(***************************************************************************)
report_zip == <<"r","e","p","o","r","t",".","z","i","p">>
report_txt == <<"r","e","p","o","r","t",".","t","x","t">>
report == <<"r","e","p","o","r","t">>
evil_entry == <<".",".","/",".",".","/","e","v","i","l",".","t","e","x">>
nested_entry == <<"s","u","b","/","d","i","r","/","f","i","l","e",".","t","e","x">>
main_tex == <<"m","a","i","n",".","t","e","x">>
evil_tex == <<"e","v","i","l",".","t","e","x">>
file_tex == <<"f","i","l","e",".","t","e","x">>

\* upload names: no file part, no name, a zip, not a zip, a hidden name
ZipNames == {None, <<>>, report_zip, report_txt, zip_ext}
\* member names: climbing, nested, plain, a directory entry, a hidden file,
\* and one that sanitizes to the empty string
EntryNames == {evil_entry, nested_entry, main_tex,
               <<"f","i","g","s","/">>, <<".","h">>, <<"!">>}

RECURSIVE SeqsUpTo(_, _)
SeqsUpTo(S, n) ==
    IF n = 0 THEN {<<>>}
    ELSE LET T == SeqsUpTo(S, n - 1)
         IN  T \cup {Append(s, x) : s \in {u \in T : Len(u) = n - 1}, x \in S}

Archives ==
    {[valid |-> TRUE, members |-> ms] : ms \in SeqsUpTo(EntryNames, MaxEntries)}
        \cup {NoZip}

InitImport == SanIdle /\ StoreIdle /\ GitIdle
NextImport ==
    \/ \E f \in ZipNames, z \in Archives : UploadRequest(1, f, z)
    \/ UploadMkdir(1)
    \/ UploadOpen(1)
    \/ UploadMember(1)
    \/ UploadDone(1)
    \/ UploadFail(1)
    \/ DeleteProject(1, report)
SpecImport == InitImport /\ [][NextImport]_vars

\* the names under which the members of an archive are accepted
Accepted(ms) ==
    {member_name(ms[k]) : k \in {j \in 1..Len(ms) :
                                    ~is_dir(ms[j]) /\ ~Falsy(member_name(ms[j]))}}

InProject(f) == DirectChild(dirname(f), PROJECTS_DIR) /\ DirectChild(f, dirname(f))

\* C2 as claimed: a successful import of an archive with the member
\* ../../evil.tex has written no file for it, inside or outside the project.
C2_EvilEntryDropped ==
    \A w \in Workers :
        (/\ resp[w].op = "upload" /\ resp[w].code = 201
         /\ \E k \in 1..Len(resp[w].zip.members) : resp[w].zip.members[k] = evil_entry)
            => \A f \in files : basename(f) # evil_tex

\* C2 as amended: a successful import of an archive with the member
\* ../../evil.tex has written it under its base name, as evil.tex directly in
\* the new project directory and nowhere outside it, and has gone on to the
\* other members (main.tex is written too when the archive holds it).
C2_EvilEntryFlattened ==
    \A w \in Workers :
        (/\ resp[w].op = "upload" /\ resp[w].code = 201
         /\ \E k \in 1..Len(resp[w].zip.members) : resp[w].zip.members[k] = evil_entry)
            => /\ os_path_join(resp[w].ppath, evil_tex) \in files
               /\ \A f \in files : InProject(f)
               /\ (\E k \in 1..Len(resp[w].zip.members) :
                       resp[w].zip.members[k] = main_tex)
                      => os_path_join(resp[w].ppath, main_tex) \in files

\* a successful import of <<../../evil.tex, main.tex>>
C2_Witness ==
    \E w \in Workers :
        /\ resp[w].op = "upload" /\ resp[w].code = 201
        /\ resp[w].zip.members = <<evil_entry, main_tex>>
        /\ os_path_join(resp[w].ppath, evil_tex) \in files

\* C3: an import that got as far as creating its directory ends either with
\* success, the project directory existing and holding only files written
\* from accepted members, or with an error and no project directory at all,
\* wherever directory creation, opening the archive or a member's write failed
\* (the rollback's own rmtree not failing).
C3_ImportAtomic ==
    \A w \in Workers :
        (resp[w].op = "upload" /\ resp[w].code \in {201, 500})
            => LET ppath == resp[w].ppath
               IN  IF resp[w].code = 201
                   THEN /\ ppath \in dirs
                        /\ Under(ppath, dirs) = {}
                        /\ Under(ppath, files) \subseteq
                               {os_path_join(ppath, n) :
                                    n \in Accepted(resp[w].zip.members)}
                   ELSE resp[w].cleanup # "failed"
                            => /\ ppath \notin dirs
                               /\ Under(ppath, files) = {}

\* an import that failed at its second member after writing the first, and
\* left nothing
C3_Witness ==
    \E w \in Workers :
        /\ resp[w].op = "upload" /\ resp[w].code = 500
        /\ resp[w].i = 2
        /\ resp[w].zip.members[1] = main_tex
        /\ resp[w].cleanup = "done"
        /\ resp[w].ppath \notin dirs

(***************************************************************************)
(* Two workers: imports and project creations of one name, interleaved.    *)
(***************************************************************************)
ConcArchives == {[valid |-> TRUE, members |-> <<main_tex>>],
                 [valid |-> TRUE, members |-> <<main_tex, file_tex>>],
                 NoZip}

InitConc == SanIdle /\ StoreIdle /\ GitIdle
NextConc ==
    \E w \in Workers :
        \/ \E z \in ConcArchives : UploadRequest(w, report_zip, z)
        \/ UploadMkdir(w)
        \/ UploadOpen(w)
        \/ UploadMember(w)
        \/ UploadDone(w)
        \/ UploadFail(w)
        \/ CreateRequest(w, report)
        \/ CreateMkdir(w)
        \/ CreateWrite(w)
SpecConc == InitConc /\ [][NextConc]_vars

\* C10: import is create-only under every interleaving: every file in a
\* project directory was written by the request whose makedirs created that
\* directory (no request writes into a directory another one produced).
C10_CreateOnly ==
    \A f \in files : fileWriter[f] = dirMaker[dirname(f)]

(***************************************************************************)
(* run_git_commands: the publish sequence, one step per git command.       *)
(***************************************************************************)
\* the returncode run() gives a command that raised (timeout, not started)
LaunchFailure == 99
\* returncodes: success, a failing git command, a command that raised
ExitCodes == {0, 1, LaunchFailure}

GitCfgs == [loaded : BOOLEAN, private_key_path : BOOLEAN, host : BOOLEAN,
            username : BOOLEAN]

otherThanGit == <<raw, safe, dirs, files, dirMaker, fileWriter, pc, loc, io, resp>>

\* run(cmd): the dict returned
Ran(cmd, code) == [cmd |-> cmd, returncode |-> code]

\* a command whose result is appended to result['steps']
RunAndRecord(cmd, code, next) ==
    /\ ran' = Append(ran, Ran(cmd, code))
    /\ result' = [result EXCEPT !.steps = Append(@, Ran(cmd, code))]
    /\ gitpc' = next

\* a command whose result is dropped
RunAndDrop(cmd, code, next) ==
    /\ ran' = Append(ran, Ran(cmd, code))
    /\ result' = result
    /\ gitpc' = next

(* lines 332-342: the call, with the credential checks *)
GitStart(cfg) ==
    /\ gitpc \in {"idle", "done"}
    /\ gitCfg' = cfg
    /\ gitHad' = gitDir
    /\ ran' = <<>>
    /\ UNCHANGED <<gitDir, otherThanGit>>
    /\ IF ~cfg.loaded \/ ~cfg.private_key_path
       THEN /\ result' = [ok |-> FALSE,
                          steps |-> <<[error |-> "Git config / private key not set."]>>]
            /\ gitpc' = "done"
       ELSE IF ~cfg.host \/ ~cfg.username
       THEN /\ result' = [ok |-> FALSE,
                          steps |-> <<[error |-> "Git host/username not configured."]>>]
            /\ gitpc' = "done"
       ELSE /\ result' = [ok |-> FALSE, steps |-> <<>>]
            /\ gitpc' = "init"

\* line 362: whether the sequence stops after git init
init_aborts_Never(code) == FALSE
init_aborts(code) == code # 0

(* lines 359-366: git init -b main, or git branch -M main *)
GitInit ==
    /\ gitpc = "init"
    /\ UNCHANGED <<gitCfg, gitHad, otherThanGit>>
    /\ \E code \in ExitCodes :
        IF ~gitDir
        THEN /\ RunAndRecord("init", code, IF init_aborts(code) THEN "done" ELSE "config_name")
             /\ gitDir' = (code = 0)
        ELSE /\ RunAndDrop("branch", code, "config_name")
             /\ UNCHANGED gitDir

(* line 369 *)
GitConfigName ==
    /\ gitpc = "config_name"
    /\ UNCHANGED <<gitCfg, gitDir, gitHad, otherThanGit>>
    /\ \E code \in ExitCodes : RunAndDrop("config user.name", code, "config_email")

(* line 370 *)
GitConfigEmail ==
    /\ gitpc = "config_email"
    /\ UNCHANGED <<gitCfg, gitDir, gitHad, otherThanGit>>
    /\ \E code \in ExitCodes : RunAndDrop("config user.email", code, "add")

(* lines 373-374 *)
GitAdd ==
    /\ gitpc = "add"
    /\ UNCHANGED <<gitCfg, gitDir, gitHad, otherThanGit>>
    /\ \E code \in ExitCodes : RunAndRecord("add", code, "commit")

(* lines 375-376 *)
GitCommit ==
    /\ gitpc = "commit"
    /\ UNCHANGED <<gitCfg, gitDir, gitHad, otherThanGit>>
    /\ \E code \in ExitCodes : RunAndRecord("commit", code, "remote_remove")

(* line 379 *)
GitRemoteRemove ==
    /\ gitpc = "remote_remove"
    /\ UNCHANGED <<gitCfg, gitDir, gitHad, otherThanGit>>
    /\ \E code \in ExitCodes : RunAndDrop("remote remove", code, "remote_add")

(* lines 380-381 *)
GitRemoteAdd ==
    /\ gitpc = "remote_add"
    /\ UNCHANGED <<gitCfg, gitDir, gitHad, otherThanGit>>
    /\ \E code \in ExitCodes : RunAndRecord("remote add", code, "push")

\* lines 386-387: the value of result['ok'], given push's returncode and the
\* steps recorded before it
publish_ok_AllSteps(code, steps) ==
    code = 0 /\ \A k \in 1..Len(steps) : steps[k].returncode = 0
publish_ok(code, steps) == code = 0

(* lines 384-388 *)
GitPush ==
    /\ gitpc = "push"
    /\ UNCHANGED <<gitCfg, gitDir, gitHad, otherThanGit>>
    /\ \E code \in ExitCodes :
        /\ ran' = Append(ran, Ran("push", code))
        /\ result' = [ok |-> publish_ok(code, result.steps),
                      steps |-> Append(result.steps, Ran("push", code))]
        /\ gitpc' = "done"

InitPublish == SanIdle /\ StoreIdle /\ GitIdle
NextPublish ==
    \/ \E cfg \in GitCfgs : GitStart(cfg)
    \/ GitInit
    \/ GitConfigName
    \/ GitConfigEmail
    \/ GitAdd
    \/ GitCommit
    \/ GitRemoteRemove
    \/ GitRemoteAdd
    \/ GitPush
SpecPublish == InitPublish /\ [][NextPublish]_vars

Cmds == [k \in 1..Len(ran) |-> ran[k].cmd]
FullOrder(first) ==
    <<first, "config user.name", "config user.email", "add", "commit",
      "remote remove", "remote add", "push">>
CredentialComplete ==
    gitCfg.loaded /\ gitCfg.private_key_path /\ gitCfg.host /\ gitCfg.username
InitFailed == ran # <<>> /\ ran[1].cmd = "init" /\ ran[1].returncode # 0

\* C6: result['ok'] is true if and only if push was issued and returned 0,
\* whatever the earlier commands returned; a run that ends before push
\* (incomplete credential, failed init) has ok false.
C6_OkIffPushZero ==
    result.ok <=> \E k \in 1..Len(ran) : ran[k].cmd = "push" /\ ran[k].returncode = 0

\* a finished run with a failed commit and ok true
C6_Witness ==
    /\ gitpc = "done"
    /\ result.ok
    /\ \E k \in 1..Len(ran) : ran[k].cmd = "commit" /\ ran[k].returncode # 0

\* C7: with a complete credential the commands are issued in the fixed order
\* init (no .git yet) or branch rename (.git exists), config user.name, config
\* user.email, add, commit, remote remove, remote add, push; after a failed
\* init nothing more is issued; otherwise a finished run has issued every
\* command exactly once, whatever the commands returned; with an incomplete
\* credential no command is issued.
C7_FixedOrder ==
    LET order == FullOrder(IF gitHad THEN "branch" ELSE "init")
    IN  /\ Len(ran) <= Len(order)
        /\ Cmds = SubSeq(order, 1, Len(ran))
        /\ InitFailed => Len(ran) = 1
        /\ (gitpc = "done" /\ CredentialComplete /\ ~InitFailed) => Cmds = order
        /\ (gitpc # "idle" /\ ~CredentialComplete) => ran = <<>>

\* a finished run that issued all eight commands although add and commit
\* failed
C7_Witness ==
    /\ gitpc = "done"
    /\ Cmds = FullOrder("init")
    /\ ran[4].returncode # 0
    /\ ran[5].returncode # 0

\* C8: whenever a command issued before push returned non-zero (or could not
\* be started), the steps list of the finished run holds that command's
\* result.
C8_AllFailuresRecorded ==
    gitpc = "done" =>
        \A k \in 1..Len(ran) :
            (ran[k].cmd # "push" /\ ran[k].returncode # 0)
                => \E j \in 1..Len(result.steps) : result.steps[j] = ran[k]

(***************************************************************************)
(* sanitize_name against its description.                                  *)
(***************************************************************************)
RawText == IF raw = None THEN <<>> ELSE raw

\* the positions of the raw string that survive: inside the trimmed part, an
\* allowed character, or the first whitespace character of a run
Kept ==
    LET r == RawText
        solid == {k \in 1..Len(r) : r[k] \notin Whitespace}
    IN  {k \in 1..Len(r) :
            /\ \E a \in solid, b \in solid : a <= k /\ k <= b
            /\ \/ r[k] \in AllowedChars
               \/ r[k] \in Whitespace /\ r[k - 1] \notin Whitespace}

\* the trimmed, whitespace-collapsed, character-filtered form of the raw string
NormalForm ==
    [n \in 1..Cardinality(Kept) |->
        LET k == CHOOSE k \in Kept : Cardinality({j \in Kept : j <= k}) = n
        IN  IF RawText[k] \in Whitespace THEN "_" ELSE RawText[k]]

\* C9: sanitize_name either rejects (a value every caller tests as false) or
\* returns a name that is non-empty, holds only characters of [A-Za-z0-9_.-],
\* has no ".." and starts with neither "/" nor "."; it rejects exactly when the
\* trimmed, whitespace-collapsed, character-filtered string is empty, holds
\* ".." or starts with "/" or "."; otherwise it returns that string.
C9_SanitizeContract ==
    safe # Unset =>
        LET bad == \/ NormalForm = <<>>
                   \/ Contains(NormalForm, dotdot)
                   \/ NormalForm[1] \in {"/", "."}
        IN  /\ Falsy(safe) <=> bad
            /\ ~Falsy(safe) =>
                  /\ safe = NormalForm
                  /\ safe # <<>>
                  /\ \A k \in 1..Len(safe) : safe[k] \in AllowedChars
                  /\ ~Contains(safe, dotdot)
                  /\ safe[1] \notin {"/", "."}

\* "a !" has its space collapsed and its "!" removed: a_ is returned
C9_Witness ==
    /\ raw = <<"a", " ", "!">>
    /\ safe = <<"a", "_">>

====
